---- MODULE Spec2Model ----
(***************************************************************************)
(* Dendrite core: the Session state machine of dendrite_core/src/session.rs *)
(* driven by a host that calls its methods one at a time while the UTC      *)
(* wall clock advances between (and inside) the calls.                      *)
(*                                                                          *)
(* Times are milliseconds.  Option<T> is a sequence of length 0 (None) or   *)
(* 1 (Some).  The clock is taken to be non-decreasing, so every             *)
(* `(a - b).num_milliseconds() as u64` is the plain difference.             *)
(*                                                                          *)
(* The GrowthProfile of dendrite_core/src/storage.rs is the variable        *)
(* `profile`; ProfileSpec is the host merging sessions into it over the     *)
(* days.  A calendar date is the number of the UTC day.                     *)
(***************************************************************************)
EXTENDS Integers, Sequences, FiniteSets, TLC

\* ---------------------------------------------------------------- bounds
MaxCalls == 4
MaxNow == 8000
MaxSessions == 3
MaxDay == 5

\* The clock reading at which the session is constructed.
StartTimes == {1000}
\* How far the wall clock may advance between two readings.
Gaps == {2000, 5000}
Files == {"a.rs", "b.ts"}
Langs == {"rust", "typescript"}
Hashes == {"0123456789abcdef"}

\* ------------------------------------------------------ program constants
ACTIVITY_GAP_MS == 5000
LANGUAGE_INCREMENT_MS == 1000
SHORT_HASH_LEN == 7
MS_PER_DAY == 86400000

\* ------------------------------------------------------------------ state
VARIABLES
    now,             \* what Utc::now() returns at this instant
    state,           \* Session.state
    started_at,      \* Session.started_at
    ended_at,        \* Session.ended_at : Option
    active_time_ms,  \* Session.active_time_ms
    keystroke_count, \* Session.keystroke_count
    files_edited,    \* Session.files_edited : Vec
    languages,       \* Session.languages : HashMap, a function on its keys
    idle_periods,    \* Session.idle_periods : Vec<IdlePeriod>
    commits,         \* Session.commits : Vec<CommitRef>
    last_activity,   \* Session.last_activity
    current_idle,    \* Session.current_idle : Option<IdlePeriod>
    call,            \* the host's latest call on the session or profile
    profile,         \* the host's GrowthProfile
    registry,        \* the keys of SESSION_REGISTRY
    NEXT_SESSION_ID, \* the static NEXT_SESSION_ID
    host             \* the latest call of an exported function, and its result

vars == <<now, state, started_at, ended_at, active_time_ms, keystroke_count,
          files_edited, languages, idle_periods, commits, last_activity,
          current_idle, call, profile, registry, NEXT_SESSION_ID, host>>

\* The statics of lib.rs, and what the host last saw returned.
hostVars == <<registry, NEXT_SESSION_ID, host>>

\* Every field of the Session struct.
sessionFields == <<state, started_at, ended_at, active_time_ms,
                   keystroke_count, files_edited, languages, idle_periods,
                   commits, last_activity, current_idle>>

None == <<>>

Some(x) == <<x>>

SessionState == {"Active", "Idle", "Paused", "Ended"}

\* What an exported function returns: (), a u64, or a String holding JSON.
Unit == [unit |-> TRUE]

U64(n) == [u64 |-> n]

Json(obj) == [json |-> obj]

\* ------------------------------------------------------------ IdlePeriod
IdlePeriod_new(t) == [started_at |-> t, ended_at |-> None, duration_ms |-> 0]

\* IdlePeriod::end that stamps ended_at but forgets the duration.
IdlePeriod_end_noDuration(idle, t) == [idle EXCEPT !.ended_at = Some(t)]

IdlePeriod_end(idle, t) ==
    [idle EXCEPT !.ended_at = Some(t), !.duration_ms = t - idle.started_at]

\* -------------------------------------------------------------- CommitRef
CommitRef_new(hash, message, timestamp, files_changed) ==
    [hash |-> hash,
     short_hash |-> SubSeq(hash, 1, IF Len(hash) < SHORT_HASH_LEN
                                     THEN Len(hash) ELSE SHORT_HASH_LEN),
     message |-> message,
     timestamp |-> timestamp,
     files_changed |-> files_changed]

\* ------------------------------------------------------------------ clock
\* The readings a later Utc::now() can give once an earlier one gave t.
LaterReads(t) == {t} \cup {t + d : d \in {g \in Gaps : t + g <= MaxNow}}

Tick ==
    /\ \E d \in Gaps :
          /\ now + d <= MaxNow
          /\ now' = now + d
    /\ UNCHANGED <<sessionFields, call, profile, hostVars>>

\* The host calls method `name` of the session; the call's first clock reading
\* is `now` and the session is in `state` when the call starts.
Called(name) ==
    /\ call.seq < MaxCalls
    /\ call' = [seq |-> call.seq + 1, name |-> name, at |-> now, pre |-> state]
    /\ UNCHANGED profile

\* A step that is a call of `name`.
IsCall(name) == call'.seq = call.seq + 1 /\ call'.name = name

\* ----------------------------------------------------------- GrowthProfile
LifetimeStats_default ==
    [total_time_ms |-> 0, total_keystrokes |-> 0, total_sessions |-> 0,
     total_commits |-> 0, current_streak |-> 0, longest_streak |-> 0,
     languages |-> <<>>]

\* GrowthProfile::new at clock reading t; the v4 uuid is one fixed string.
GrowthProfile_new(t) ==
    [id |-> "uuid", created_at |-> t, sessions |-> <<>>,
     daily_aggregates |-> <<>>, lifetime_stats |-> LifetimeStats_default]

\* ---------------------------------------------------------------- Session
Init ==
    /\ now \in StartTimes
    /\ state = "Active"
    /\ started_at = now
    /\ ended_at = None
    /\ active_time_ms = 0
    /\ keystroke_count = 0
    /\ files_edited = <<>>
    /\ languages = <<>>
    /\ idle_periods = <<>>
    /\ commits = <<>>
    /\ last_activity = now
    /\ current_idle = None
    /\ call = [seq |-> 0, name |-> "new", at |-> now, pre |-> "Active"]
    /\ profile = GrowthProfile_new(now)
    /\ registry = {}
    /\ NEXT_SESSION_ID = 1
    /\ host = [fn |-> "none", handle |-> 0, ret |-> Unit]

\* update_activity_time with the threshold test written `<=`.
update_activity_time_inclusive ==
    IF state = "Active"
    THEN LET delta == now - last_activity
         IN  <<IF delta <= ACTIVITY_GAP_MS THEN active_time_ms + delta
                                           ELSE active_time_ms,
               now>>
    ELSE <<active_time_ms, last_activity>>

\* update_activity_time: the new (active_time_ms, last_activity).
update_activity_time ==
    IF state = "Active"
    THEN LET delta == now - last_activity
         IN  <<IF delta < ACTIVITY_GAP_MS THEN active_time_ms + delta
                                          ELSE active_time_ms,
               now>>
    ELSE <<active_time_ms, last_activity>>

record_keystroke ==
    /\ Called("record_keystroke")
    /\ keystroke_count' = keystroke_count + 1
    /\ active_time_ms' = update_activity_time[1]
    /\ last_activity' = update_activity_time[2]
    /\ UNCHANGED <<now, state, started_at, ended_at, files_edited, languages,
                   idle_periods, commits, current_idle>>

Contains(seq, x) == \E i \in 1..Len(seq) : seq[i] = x

\* HashMap entry(k).or_insert(0) += v
EntryAdd(map, k, v) ==
    [x \in (DOMAIN map) \cup {k} |->
        IF x = k THEN (IF k \in DOMAIN map THEN map[k] ELSE 0) + v
                 ELSE map[x]]

\* record_file_edit that pushes the path without looking for it first.
record_file_edit_alwaysPush(file_path, language) ==
    /\ Called("record_file_edit")
    /\ files_edited' = Append(files_edited, file_path)
    /\ active_time_ms' = update_activity_time[1]
    /\ last_activity' = update_activity_time[2]
    /\ languages' = EntryAdd(languages, language, LANGUAGE_INCREMENT_MS)
    /\ UNCHANGED <<now, state, started_at, ended_at, keystroke_count,
                   idle_periods, commits, current_idle>>

record_file_edit(file_path, language) ==
    /\ Called("record_file_edit")
    /\ files_edited' = IF ~Contains(files_edited, file_path)
                       THEN Append(files_edited, file_path)
                       ELSE files_edited
    /\ active_time_ms' = update_activity_time[1]
    /\ last_activity' = update_activity_time[2]
    /\ languages' = EntryAdd(languages, language, LANGUAGE_INCREMENT_MS)
    /\ UNCHANGED <<now, state, started_at, ended_at, keystroke_count,
                   idle_periods, commits, current_idle>>

\* mark_idle without its state test.
mark_idle_unguarded ==
    /\ Called("mark_idle")
    /\ state' = "Idle"
    /\ current_idle' = Some(IdlePeriod_new(now))
    /\ UNCHANGED <<now, started_at, ended_at, active_time_ms, keystroke_count,
                   files_edited, languages, idle_periods, commits,
                   last_activity>>

mark_idle ==
    /\ Called("mark_idle")
    /\ IF state = "Active"
       THEN /\ state' = "Idle"
            /\ current_idle' = Some(IdlePeriod_new(now))
       ELSE UNCHANGED <<state, current_idle>>
    /\ UNCHANGED <<now, started_at, ended_at, active_time_ms, keystroke_count,
                   files_edited, languages, idle_periods, commits,
                   last_activity>>

\* resume_from_idle that logs the interval but leaves it open in
\* current_idle (as_mut in place of take).
resume_from_idle_keepsOpen ==
    /\ Called("resume_from_idle")
    /\ IF state = "Idle"
       THEN \E t2 \in LaterReads(now) :
              /\ IF current_idle # None
                 THEN idle_periods' =
                         Append(idle_periods,
                                IdlePeriod_end(current_idle[1], now))
                 ELSE UNCHANGED idle_periods
              /\ state' = "Active"
              /\ last_activity' = t2
              /\ now' = t2
       ELSE UNCHANGED <<now, state, idle_periods, last_activity>>
    /\ UNCHANGED <<started_at, ended_at, active_time_ms, keystroke_count,
                   files_edited, languages, commits, current_idle>>

\* The second clock reading of the call (line 139) is t2.
resume_from_idle ==
    /\ Called("resume_from_idle")
    /\ IF state = "Idle"
       THEN \E t2 \in LaterReads(now) :
              /\ IF current_idle # None
                 THEN /\ idle_periods' =
                            Append(idle_periods,
                                   IdlePeriod_end(current_idle[1], now))
                      /\ current_idle' = None
                 ELSE UNCHANGED <<idle_periods, current_idle>>
              /\ state' = "Active"
              /\ last_activity' = t2
              /\ now' = t2
       ELSE UNCHANGED <<now, state, idle_periods, current_idle, last_activity>>
    /\ UNCHANGED <<started_at, ended_at, active_time_ms, keystroke_count,
                   files_edited, languages, commits>>

pause ==
    /\ Called("pause")
    /\ state' = "Paused"
    /\ UNCHANGED <<now, started_at, ended_at, active_time_ms, keystroke_count,
                   files_edited, languages, idle_periods, commits,
                   last_activity, current_idle>>

resume ==
    /\ Called("resume")
    /\ IF state = "Paused"
       THEN /\ state' = "Active"
            /\ last_activity' = now
       ELSE UNCHANGED <<state, last_activity>>
    /\ UNCHANGED <<now, started_at, ended_at, active_time_ms, keystroke_count,
                   files_edited, languages, idle_periods, commits,
                   current_idle>>

\* end that drops the open idle interval instead of closing it.
end_dropsOpenIdle ==
    /\ Called("end")
    /\ ended_at' = Some(now)
    /\ state' = "Ended"
    /\ current_idle' = None
    /\ UNCHANGED <<now, started_at, active_time_ms, keystroke_count,
                   files_edited, languages, idle_periods, commits,
                   last_activity>>

\* The second clock reading of the call (line 163) is t2.
end ==
    /\ Called("end")
    /\ ended_at' = Some(now)
    /\ state' = "Ended"
    /\ IF current_idle # None
       THEN \E t2 \in LaterReads(now) :
              /\ idle_periods' =
                    Append(idle_periods, IdlePeriod_end(current_idle[1], t2))
              /\ current_idle' = None
              /\ now' = t2
       ELSE UNCHANGED <<now, idle_periods, current_idle>>
    /\ UNCHANGED <<started_at, active_time_ms, keystroke_count, files_edited,
                   languages, commits, last_activity>>

add_commit(commit) ==
    /\ Called("add_commit")
    /\ commits' = Append(commits, commit)
    /\ UNCHANGED <<now, state, started_at, ended_at, active_time_ms,
                   keystroke_count, files_edited, languages, idle_periods,
                   last_activity, current_idle>>

total_duration_ms ==
    LET e == IF ended_at # None THEN ended_at[1] ELSE now
    IN  e - started_at

\* The orders in which iterating a HashMap can yield its keys: the order is
\* unspecified (std's RandomState seeds every map differently), so each
\* permutation of the keys is possible.
IterOrders(map) ==
    LET n == Cardinality(DOMAIN map)
    IN  {o \in [1..n -> DOMAIN map] : \A i, j \in 1..n : o[i] = o[j] => i = j}

\* Iterator::max_by_key over the keys in iteration order `order`: the last
\* of the elements with the greatest key wins.  best is an Option.
RECURSIVE MaxByKey(_, _, _, _)
MaxByKey(map, order, i, best) ==
    IF i > Len(order) THEN best
    ELSE MaxByKey(map, order, i + 1,
                  IF best = None \/ map[order[i]] >= map[best[1]]
                  THEN Some(order[i]) ELSE best)

\* Iterator::min_by_key in place of max_by_key.
primary_language_min(langs, order) ==
    LET RECURSIVE MinByKey(_, _)
        MinByKey(i, best) ==
            IF i > Len(order) THEN best
            ELSE MinByKey(i + 1,
                          IF best = None \/ langs[order[i]] < langs[best[1]]
                          THEN Some(order[i]) ELSE best)
    IN  MinByKey(1, None)

\* Session::primary_language of a session whose languages map is `langs`,
\* when the map iterates in `order`.
primary_language(langs, order) == MaxByKey(langs, order, 1, None)

\* The session is used directly, not through the registry.
Next ==
    \/ Tick
    \/ record_keystroke /\ UNCHANGED hostVars
    \/ \E f \in Files, l \in Langs :
          record_file_edit(f, l) /\ UNCHANGED hostVars
    \/ mark_idle /\ UNCHANGED hostVars
    \/ resume_from_idle /\ UNCHANGED hostVars
    \/ pause /\ UNCHANGED hostVars
    \/ resume /\ UNCHANGED hostVars
    \/ end /\ UNCHANGED hostVars
    \/ \E h \in Hashes :
          add_commit(CommitRef_new(h, "msg", now, <<>>)) /\ UNCHANGED hostVars

Spec == Init /\ [][Next]_vars

\* ------------------------------------------------------------ storage.rs
\* DateTime<Utc>::date_naive: the UTC day a clock reading falls on.
date_naive(t) == t \div MS_PER_DAY

\* Session::total_duration_ms of the session value s, read at clock t.  (A
\* negative difference stands for the value the u64 cast wraps it to.)
Session_total_duration_ms(s, t) ==
    LET e == IF s.ended_at # None THEN s.ended_at[1] ELSE t
    IN  e - s.started_at

\* Session::active_percentage: the f32 quotient is kept as <<dividend,
\* divisor>>; 0.0 is <<0, 1>>.
Session_active_percentage(s, t) ==
    LET total == Session_total_duration_ms(s, t)
    IN  IF total = 0 THEN <<0, 1>> ELSE <<s.active_time_ms, total>>

\* SessionStats::from_session, the languages map iterating in `order`.
SessionStats_from_session(s, t, order) ==
    [total_duration_ms |-> Session_total_duration_ms(s, t),
     active_percentage |-> Session_active_percentage(s, t),
     primary_language |-> primary_language(s.languages, order),
     commit_count |-> Len(s.commits)]

StoredSession_new(s, t, order) ==
    [session |-> s, computed_stats |-> SessionStats_from_session(s, t, order)]

DailyAggregate_new(date) ==
    [date |-> date, total_time_ms |-> 0, total_keystrokes |-> 0,
     files_count |-> 0, sessions_count |-> 0, commits_count |-> 0,
     languages |-> <<>>]

\* for (lang, time) in &session.languages { *entry(lang).or_insert(0) += time }
MergeLanguages(map, langs) ==
    [x \in (DOMAIN map) \cup (DOMAIN langs) |->
        (IF x \in DOMAIN map THEN map[x] ELSE 0)
        + (IF x \in DOMAIN langs THEN langs[x] ELSE 0)]

\* DailyAggregate::add_session that assigns the session's file count
\* instead of adding it.
DailyAggregate_add_session_filesAssigned(daily, s) ==
    [daily EXCEPT
        !.sessions_count = @ + 1,
        !.total_time_ms = @ + s.active_time_ms,
        !.total_keystrokes = @ + s.keystroke_count,
        !.commits_count = @ + Len(s.commits),
        !.files_count =
            Cardinality({s.files_edited[i] : i \in 1..Len(s.files_edited)}),
        !.languages = MergeLanguages(@, s.languages)]

\* DailyAggregate::add_session that leaves sessions_count alone when the
\* aggregate already counts a session.
DailyAggregate_add_session_countsOnce(daily, s) ==
    [daily EXCEPT
        !.sessions_count = IF @ = 0 THEN 1 ELSE @,
        !.total_time_ms = @ + s.active_time_ms,
        !.total_keystrokes = @ + s.keystroke_count,
        !.commits_count = @ + Len(s.commits),
        !.files_count =
            @ + Cardinality({s.files_edited[i] : i \in 1..Len(s.files_edited)}),
        !.languages = MergeLanguages(@, s.languages)]

DailyAggregate_add_session(daily, s) ==
    [daily EXCEPT
        !.sessions_count = @ + 1,
        !.total_time_ms = @ + s.active_time_ms,
        !.total_keystrokes = @ + s.keystroke_count,
        !.commits_count = @ + Len(s.commits),
        !.files_count =
            @ + Cardinality({s.files_edited[i] : i \in 1..Len(s.files_edited)}),
        !.languages = MergeLanguages(@, s.languages)]

\* update_from_session that counts one keystroke per session.
update_from_session_oneKeystroke(stats, s) ==
    [stats EXCEPT
        !.total_time_ms = @ + s.active_time_ms,
        !.total_keystrokes = @ + 1,
        !.total_sessions = @ + 1,
        !.total_commits = @ + Len(s.commits),
        !.languages = MergeLanguages(@, s.languages)]

\* update_from_session that inserts the session's language times over the
\* totals instead of adding them.
update_from_session_insertLanguages(stats, s) ==
    [stats EXCEPT
        !.total_time_ms = @ + s.active_time_ms,
        !.total_keystrokes = @ + s.keystroke_count,
        !.total_sessions = @ + 1,
        !.total_commits = @ + Len(s.commits),
        !.languages = [x \in (DOMAIN @) \cup (DOMAIN s.languages) |->
                          IF x \in DOMAIN s.languages THEN s.languages[x]
                                                      ELSE @[x]]]

\* update_from_session that leaves total_commits alone.
update_from_session_skipsCommits(stats, s) ==
    [stats EXCEPT
        !.total_time_ms = @ + s.active_time_ms,
        !.total_keystrokes = @ + s.keystroke_count,
        !.total_sessions = @ + 1,
        !.languages = MergeLanguages(@, s.languages)]

\* LifetimeStats::update_from_session
update_from_session(stats, s) ==
    [stats EXCEPT
        !.total_time_ms = @ + s.active_time_ms,
        !.total_keystrokes = @ + s.keystroke_count,
        !.total_sessions = @ + 1,
        !.total_commits = @ + Len(s.commits),
        !.languages = MergeLanguages(@, s.languages)]

\* Vec::sort of a vector of dates (insertion sort; the result is the one
\* ascending arrangement of the elements).
RECURSIVE SortDates(_)
SortDates(seq) ==
    IF seq = <<>> THEN <<>>
    ELSE LET rest == SortDates(Tail(seq))
             x == Head(seq)
         IN  SelectSeq(rest, LAMBDA y : y <= x) \o <<x>>
                \o SelectSeq(rest, LAMBDA y : y > x)

\* The loop of lines 146-153 at 1-based index j, counting down.
RECURSIVE CurrentStreakLoop(_, _, _)
CurrentStreakLoop(sd, j, current) ==
    IF j < 1 THEN current
    ELSE IF sd[j + 1] - sd[j] = 1
         THEN CurrentStreakLoop(sd, j - 1, current + 1)
         ELSE current

Max2(a, b) == IF a >= b THEN a ELSE b

\* The loop of lines 158-166 at 1-based index j; the result is
\* <<temp_streak, longest_streak>> when the loop ends.
RECURSIVE LongestStreakLoop(_, _, _, _)
LongestStreakLoop(sd, j, temp, longest) ==
    IF j > Len(sd) THEN <<temp, longest>>
    ELSE IF sd[j] - sd[j - 1] = 1
         THEN LongestStreakLoop(sd, j + 1, temp + 1, Max2(longest, temp + 1))
         ELSE LongestStreakLoop(sd, j + 1, 1, longest)

\* The current streak taken to be the number of dates, gaps or not.
CurrentStreak_countsAll(sd, today) ==
    IF today - sd[Len(sd)] <= 1 THEN Len(sd) ELSE 0

\* The current streak of lines 142-155 over the sorted dates sd.
CurrentStreak(sd, today) ==
    IF today - sd[Len(sd)] <= 1
    THEN CurrentStreakLoop(sd, Len(sd) - 1, 1)
    ELSE 0

\* recalculate_streaks that scans the dates in the order of the aggregates.
recalculate_streaks_unsorted(stats, daily_aggregates, today) ==
    IF daily_aggregates = <<>>
    THEN [stats EXCEPT !.current_streak = 0, !.longest_streak = 0]
    ELSE LET sd == [i \in 1..Len(daily_aggregates) |->
                        daily_aggregates[i].date]
             scan == LongestStreakLoop(sd, 2, 1, 0)
         IN  [stats EXCEPT
                 !.current_streak = CurrentStreak(sd, today),
                 !.longest_streak = Max2(scan[2], scan[1])]

\* recalculate_streaks without the final max with the running streak.
recalculate_streaks_noFinalMax(stats, daily_aggregates, today) ==
    IF daily_aggregates = <<>>
    THEN [stats EXCEPT !.current_streak = 0, !.longest_streak = 0]
    ELSE LET sd == SortDates([i \in 1..Len(daily_aggregates) |->
                                 daily_aggregates[i].date])
             scan == LongestStreakLoop(sd, 2, 1, 0)
         IN  [stats EXCEPT
                 !.current_streak = CurrentStreak(sd, today),
                 !.longest_streak = scan[2]]

\* recalculate_streaks whose running streak restarts at 0 after a gap.
recalculate_streaks_resetToZero(stats, daily_aggregates, today) ==
    IF daily_aggregates = <<>>
    THEN [stats EXCEPT !.current_streak = 0, !.longest_streak = 0]
    ELSE LET sd == SortDates([i \in 1..Len(daily_aggregates) |->
                                 daily_aggregates[i].date])
             RECURSIVE Scan(_, _, _)
             Scan(j, temp, longest) ==
                 IF j > Len(sd) THEN <<temp, longest>>
                 ELSE IF sd[j] - sd[j - 1] = 1
                      THEN Scan(j + 1, temp + 1, Max2(longest, temp + 1))
                      ELSE Scan(j + 1, 0, longest)
             scan == Scan(2, 1, 0)
         IN  [stats EXCEPT
                 !.current_streak = CurrentStreak(sd, today),
                 !.longest_streak = Max2(scan[2], scan[1])]

\* LifetimeStats::recalculate_streaks, Utc::now().date_naive() being `today`.
recalculate_streaks(stats, daily_aggregates, today) ==
    IF daily_aggregates = <<>>
    THEN [stats EXCEPT !.current_streak = 0, !.longest_streak = 0]
    ELSE LET sd == SortDates([i \in 1..Len(daily_aggregates) |->
                                 daily_aggregates[i].date])
             scan == LongestStreakLoop(sd, 2, 1, 0)
         IN  [stats EXCEPT
                 !.current_streak = CurrentStreak(sd, today),
                 !.longest_streak = Max2(scan[2], scan[1])]

\* The index of the first aggregate of `date`, 0 when there is none
\* (iter_mut().find).
FindDaily(daily_aggregates, date) ==
    IF \E i \in 1..Len(daily_aggregates) : daily_aggregates[i].date = date
    THEN CHOOSE i \in 1..Len(daily_aggregates) :
            /\ daily_aggregates[i].date = date
            /\ \A j \in 1..(i - 1) : daily_aggregates[j].date # date
    ELSE 0

\* The update-or-create step of add_session without the lookup: a new
\* aggregate is pushed for every session.
MergeIntoDay_alwaysPush(daily_aggregates, s) ==
    Append(daily_aggregates,
           DailyAggregate_add_session(
               DailyAggregate_new(date_naive(s.started_at)), s))

\* The update-or-create step of add_session (lines 203-210).
MergeIntoDay(daily_aggregates, s) ==
    LET session_date == date_naive(s.started_at)
        i == FindDaily(daily_aggregates, session_date)
    IN  IF i # 0
        THEN [daily_aggregates EXCEPT
                 ![i] = DailyAggregate_add_session(@, s)]
        ELSE Append(daily_aggregates,
                    DailyAggregate_add_session(
                        DailyAggregate_new(session_date), s))

\* GrowthProfile::add_session(s) on profile p; t is the clock reading of the
\* call and `order` the iteration order of s.languages in primary_language.
GrowthProfile_add_session(p, s, t, order) ==
    LET stored_session == StoredSession_new(s, t, order)
        stats1 == update_from_session(p.lifetime_stats, s)
        aggs == MergeIntoDay(p.daily_aggregates, s)
        stats2 == recalculate_streaks(stats1, aggs, date_naive(t))
    IN  [p EXCEPT !.lifetime_stats = stats2,
                  !.daily_aggregates = aggs,
                  !.sessions = Append(@, stored_session)]

\* ------------------------------------------------- sessions handed to merge
\* The start dates of the submitted sessions: 2024-06-05 (day 0) and
\* 2024-06-08 .. 2024-06-11.
Days == {0, 3, 4, 5, 6}

\* The host starts on 2024-06-09.
ProfileStartTimes == {4 * MS_PER_DAY + 1000}

\* A Session::new(1) value, as test_add_session merges it: never ended.
FreshSession(t) ==
    [id |-> 1, started_at |-> t, ended_at |-> None, active_time_ms |-> 0,
     keystroke_count |-> 0, files_edited |-> <<>>, languages |-> <<>>,
     idle_periods |-> <<>>, commits |-> <<>>, state |-> "Active",
     last_activity |-> t, current_idle |-> None]

\* Three keystrokes, two edits of a.rs in rust and one of b.ts in typescript,
\* an idle period, a commit, then end.
WorkedSession(t) ==
    [id |-> 2, started_at |-> t, ended_at |-> Some(t + 5000),
     active_time_ms |-> 2000, keystroke_count |-> 3,
     files_edited |-> <<"a.rs", "b.ts">>,
     languages |-> [l \in {"rust", "typescript"} |->
                      IF l = "rust" THEN 2000 ELSE 1000],
     idle_periods |-> <<IdlePeriod_end(IdlePeriod_new(t + 2000), t + 4000)>>,
     commits |-> <<CommitRef_new("0123456789abcdef", "msg", t + 2000, <<>>)>>,
     state |-> "Ended", last_activity |-> t + 4000, current_idle |-> None]

\* The session values the host submits: each shape started on each day.
SessionInputs ==
    UNION {{FreshSession(d * MS_PER_DAY + 1000),
            WorkedSession(d * MS_PER_DAY + 1000)} : d \in Days}

\* -------------------------------------------------------------- ProfileSpec
\* profile.add_session(s), as save_session_to_profile performs it.
add_session(s) ==
    /\ Len(profile.sessions) < MaxSessions
    /\ \E order \in IterOrders(s.languages) :
          profile' = GrowthProfile_add_session(profile, s, now, order)
    /\ call' = [seq |-> call.seq + 1, name |-> "add_session", at |-> now,
                pre |-> state, arg |-> s, before |-> profile]
    /\ UNCHANGED <<now, sessionFields, hostVars>>

\* A UTC day goes by.
DayPasses ==
    /\ date_naive(now) < MaxDay
    /\ now' = now + MS_PER_DAY
    /\ UNCHANGED <<sessionFields, call, profile, hostVars>>

ProfileNext ==
    \/ DayPasses
    \/ \E s \in SessionInputs : add_session(s)

\* A new profile, and a new session nothing is done with.
ProfileInit ==
    /\ now \in ProfileStartTimes
    /\ state = "Active"
    /\ started_at = now
    /\ ended_at = None
    /\ active_time_ms = 0
    /\ keystroke_count = 0
    /\ files_edited = <<>>
    /\ languages = <<>>
    /\ idle_periods = <<>>
    /\ commits = <<>>
    /\ last_activity = now
    /\ current_idle = None
    /\ call = [seq |-> 0, name |-> "new", at |-> now, pre |-> "Active"]
    /\ profile = GrowthProfile_new(now)
    /\ registry = {}
    /\ NEXT_SESSION_ID = 1
    /\ host = [fn |-> "none", handle |-> 0, ret |-> Unit]

ProfileSpec == ProfileInit /\ [][ProfileNext]_vars

\* ------------------------------------------------------------- serde_json
\* A JSON text is modelled by the object it denotes, a function on its field
\* names; integers, strings, dates, times and f32 quotients are written and
\* read back exactly.  "{}" is the object without fields.
EmptyObject == <<>>

SessionJsonFields ==
    {"id", "started_at", "ended_at", "active_time_ms", "keystroke_count",
     "files_edited", "languages", "idle_periods", "commits"}

ProfileJsonFields ==
    {"id", "created_at", "sessions", "daily_aggregates", "lifetime_stats"}

\* DateTime::<Utc>::default(), the Unix epoch: a reading before every reading
\* of the model's clock.
DateTime_default == -1

\* Serialize for Session that also skips idle_periods.
Session_to_json_skipsIdlePeriods(s) ==
    [id |-> s.id, started_at |-> s.started_at, ended_at |-> s.ended_at,
     active_time_ms |-> s.active_time_ms,
     keystroke_count |-> s.keystroke_count, files_edited |-> s.files_edited,
     languages |-> s.languages, commits |-> s.commits]

\* Serialize for Session: state, last_activity and current_idle are
\* #[serde(skip)].
Session_to_json(s) ==
    [id |-> s.id, started_at |-> s.started_at, ended_at |-> s.ended_at,
     active_time_ms |-> s.active_time_ms,
     keystroke_count |-> s.keystroke_count, files_edited |-> s.files_edited,
     languages |-> s.languages, idle_periods |-> s.idle_periods,
     commits |-> s.commits]

\* Deserialize for Session: Some(session), or None for Err when a field is
\* missing; the skipped fields take their Default.
Session_from_json(json) ==
    IF DOMAIN json = SessionJsonFields
    THEN Some([id |-> json.id, started_at |-> json.started_at,
               ended_at |-> json.ended_at,
               active_time_ms |-> json.active_time_ms,
               keystroke_count |-> json.keystroke_count,
               files_edited |-> json.files_edited,
               languages |-> json.languages,
               idle_periods |-> json.idle_periods, commits |-> json.commits,
               state |-> "Active", last_activity |-> DateTime_default,
               current_idle |-> None])
    ELSE None

\* GrowthProfile::to_json (its Ok value)
GrowthProfile_to_json(p) ==
    [id |-> p.id, created_at |-> p.created_at,
     sessions |-> [i \in 1..Len(p.sessions) |->
                      [session |-> Session_to_json(p.sessions[i].session),
                       computed_stats |-> p.sessions[i].computed_stats]],
     daily_aggregates |-> p.daily_aggregates,
     lifetime_stats |-> p.lifetime_stats]

\* GrowthProfile::from_json: Some(profile), or None for Err.
GrowthProfile_from_json(json) ==
    IF /\ DOMAIN json = ProfileJsonFields
       /\ \A i \in 1..Len(json.sessions) :
             Session_from_json(json.sessions[i].session) # None
    THEN Some([id |-> json.id, created_at |-> json.created_at,
               sessions |->
                  [i \in 1..Len(json.sessions) |->
                      [session |->
                          Session_from_json(json.sessions[i].session)[1],
                       computed_stats |-> json.sessions[i].computed_stats]],
               daily_aggregates |-> json.daily_aggregates,
               lifetime_stats |-> json.lifetime_stats])
    ELSE None

\* ------------------------------------------- lib.rs, storage operations
\* t is the clock reading of the call and `order` the iteration order of the
\* session's languages.
save_session_to_profile(profile_json, session_json, t, order) ==
    LET p == GrowthProfile_from_json(profile_json)
        s == Session_from_json(session_json)
    IN  IF p = None THEN profile_json
        ELSE IF s = None THEN profile_json
        ELSE GrowthProfile_to_json(
                 GrowthProfile_add_session(p[1], s[1], t, order))

create_empty_profile(t) == GrowthProfile_to_json(GrowthProfile_new(t))

get_profile_stats(profile_json) ==
    LET p == GrowthProfile_from_json(profile_json)
    IN  IF p = None THEN EmptyObject ELSE p[1].lifetime_stats

get_current_streak(profile_json) ==
    LET p == GrowthProfile_from_json(profile_json)
    IN  IF p = None THEN 0 ELSE p[1].lifetime_stats.current_streak

get_longest_streak(profile_json) ==
    LET p == GrowthProfile_from_json(profile_json)
    IN  IF p = None THEN 0 ELSE p[1].lifetime_stats.longest_streak

\* Texts that are no GrowthProfile and no Session: "{}" and an object with
\* one of the fields only.
MalformedJson == {EmptyObject, [id |-> "uuid"]}

\* --------------------------------------------- lib.rs, session management
\* The registry holds at most one session in this model; its fields are the
\* session variables and `id` is its key.
TheSession(id) ==
    [id |-> id, started_at |-> started_at, ended_at |-> ended_at,
     active_time_ms |-> active_time_ms, keystroke_count |-> keystroke_count,
     files_edited |-> files_edited, languages |-> languages,
     idle_periods |-> idle_periods, commits |-> commits, state |-> state,
     last_activity |-> last_activity, current_idle |-> current_idle]

\* The handles the host passes: the first id init_session hands out, and one
\* it never hands out while the registry holds one session.
Handles == {1, 2}

\* The exported function fn, called with `handle`, returns r.
Returns(fn, handle, r) == host' = [fn |-> fn, handle |-> handle, ret |-> r]

\* get_mut(&handle) / get(&handle) gives None: no session is touched.
NoSession(name) ==
    /\ Called(name)
    /\ UNCHANGED <<now, sessionFields>>

init_session ==
    /\ registry = {}
    /\ Called("init_session")
    /\ NEXT_SESSION_ID' = NEXT_SESSION_ID + 1
    /\ registry' = registry \cup {NEXT_SESSION_ID}
    /\ state' = "Active"
    /\ started_at' = now
    /\ ended_at' = None
    /\ active_time_ms' = 0
    /\ keystroke_count' = 0
    /\ files_edited' = <<>>
    /\ languages' = <<>>
    /\ idle_periods' = <<>>
    /\ commits' = <<>>
    /\ last_activity' = now
    /\ current_idle' = None
    /\ Returns("init_session", NEXT_SESSION_ID, U64(NEXT_SESSION_ID))
    /\ UNCHANGED now

lib_record_keystroke(handle) ==
    /\ IF handle \in registry THEN record_keystroke
                              ELSE NoSession("record_keystroke")
    /\ Returns("record_keystroke", handle, Unit)
    /\ UNCHANGED <<registry, NEXT_SESSION_ID>>

lib_record_file_edit(handle, file_path, language) ==
    /\ IF handle \in registry THEN record_file_edit(file_path, language)
                              ELSE NoSession("record_file_edit")
    /\ Returns("record_file_edit", handle, Unit)
    /\ UNCHANGED <<registry, NEXT_SESSION_ID>>

lib_mark_idle(handle) ==
    /\ IF handle \in registry THEN mark_idle ELSE NoSession("mark_idle")
    /\ Returns("mark_idle", handle, Unit)
    /\ UNCHANGED <<registry, NEXT_SESSION_ID>>

lib_resume_from_idle(handle) ==
    /\ IF handle \in registry THEN resume_from_idle
                              ELSE NoSession("resume_from_idle")
    /\ Returns("resume_from_idle", handle, Unit)
    /\ UNCHANGED <<registry, NEXT_SESSION_ID>>

end_session(handle) ==
    /\ IF handle \in registry
       THEN /\ end
            /\ \E order \in IterOrders(languages) :
                  Returns("end_session", handle,
                          Json(SessionStats_from_session(
                                   TheSession(handle)', now', order)))
       ELSE /\ NoSession("end_session")
            /\ Returns("end_session", handle, Json(EmptyObject))
    /\ UNCHANGED <<registry, NEXT_SESSION_ID>>

get_active_session_stats(handle) ==
    /\ Called("get_active_session_stats")
    /\ IF handle \in registry
       THEN \E order \in IterOrders(languages) :
               Returns("get_active_session_stats", handle,
                       Json(SessionStats_from_session(
                                TheSession(handle), now, order)))
       ELSE Returns("get_active_session_stats", handle, Json(EmptyObject))
    /\ UNCHANGED <<now, sessionFields, registry, NEXT_SESSION_ID>>

serialize_session(handle) ==
    /\ Called("serialize_session")
    /\ IF handle \in registry
       THEN Returns("serialize_session", handle,
                    Json(Session_to_json(TheSession(handle))))
       ELSE Returns("serialize_session", handle, Json(EmptyObject))
    /\ UNCHANGED <<now, sessionFields, registry, NEXT_SESSION_ID>>

CommitJsonFields ==
    {"hash", "short_hash", "message", "timestamp", "files_changed"}

\* Deserialize for CommitRef: Some(commit), or None for Err.
CommitRef_from_json(json) ==
    IF DOMAIN json = CommitJsonFields THEN Some(json) ELSE None

add_commit_to_session(handle, commit_json) ==
    /\ IF CommitRef_from_json(commit_json) = None
       THEN NoSession("add_commit_to_session")
       ELSE IF handle \in registry
            THEN add_commit(CommitRef_from_json(commit_json)[1])
            ELSE NoSession("add_commit_to_session")
    /\ Returns("add_commit_to_session", handle, Unit)
    /\ UNCHANGED <<registry, NEXT_SESSION_ID>>

\* The commit texts the host passes: one well formed, one not.
CommitJsons ==
    {CommitRef_new(h, "msg", now, <<>>) : h \in Hashes} \cup {EmptyObject}

HostNext ==
    \/ Tick
    \/ init_session
    \/ \E handle \in Handles : lib_record_keystroke(handle)
    \/ \E handle \in Handles, f \in Files, l \in Langs :
          lib_record_file_edit(handle, f, l)
    \/ \E handle \in Handles : lib_mark_idle(handle)
    \/ \E handle \in Handles : lib_resume_from_idle(handle)
    \/ \E handle \in Handles : end_session(handle)
    \/ \E handle \in Handles : get_active_session_stats(handle)
    \/ \E handle \in Handles : serialize_session(handle)
    \/ \E handle \in Handles, commit_json \in CommitJsons :
          add_commit_to_session(handle, commit_json)

\* The module is loaded and nothing has been called: the registry is empty
\* and the session variables are not in use until init_session.
HostInit == Init

HostSpec == HostInit /\ [][HostNext]_vars

\* ================================================================ claims
Last(seq) == seq[Len(seq)]

IsRecordCall == IsCall("record_keystroke") \/ IsCall("record_file_edit")

\* C1: Ended is terminal: once the state is Ended no session operation moves
\* the session to another state.
C1_EndedIsTerminal == [][state = "Ended" => state' = "Ended"]_vars

\* C2: in every reachable state ended_at is present if and only if the state
\* is Ended.
C2_EndedAtIffEnded == (ended_at # None) <=> (state = "Ended")

\* C3: record_keystroke and record_file_edit called in a state other than
\* Active leave keystroke_count, files_edited, languages and active_time_ms
\* unchanged.
C3_RecordOnlyWhileActive ==
    [][(IsRecordCall /\ state # "Active") =>
          UNCHANGED <<keystroke_count, files_edited, languages,
                      active_time_ms>>]_vars

\* C4: the commit log of an ended session never changes; add_commit called in
\* state Ended appends nothing.
C4_NoCommitOnceEnded == [][state = "Ended" => commits' = commits]_vars

\* C5: pause changes the state only Active -> Paused, resume only
\* Paused -> Active, and neither touches idle_periods or the open interval.
C5_PauseResumeActivePaused ==
    [][/\ IsCall("pause") =>
             state' = (IF state = "Active" THEN "Paused" ELSE state)
       /\ IsCall("resume") =>
             state' = (IF state = "Paused" THEN "Active" ELSE state)
       /\ (IsCall("pause") \/ IsCall("resume")) =>
             UNCHANGED <<idle_periods, current_idle>>]_vars

\* C6: for a terminal session total_duration_ms is ended_at - started_at, and
\* once the session is ended no later step changes ended_at or that value.
C6_DurationStableOnceEnded ==
    [][state = "Ended" =>
          /\ total_duration_ms = ended_at[1] - started_at
          /\ ended_at' = ended_at
          /\ total_duration_ms' = total_duration_ms]_vars

\* C7: end leaves the session Ended with ended_at set and no open idle
\* interval; an interval open at the call is appended, closed, exactly once,
\* and otherwise idle_periods is unchanged.
C7_EndClosesEverything ==
    [][IsCall("end") =>
          /\ state' = "Ended"
          /\ ended_at' # None
          /\ current_idle' = None
          /\ IF current_idle # None
             THEN /\ Len(idle_periods') = Len(idle_periods) + 1
                  /\ SubSeq(idle_periods', 1, Len(idle_periods)) = idle_periods
                  /\ Last(idle_periods').started_at = current_idle[1].started_at
                  /\ Last(idle_periods').ended_at # None
             ELSE idle_periods' = idle_periods]_vars

\* C7 witness: end was called while Idle and closed the open interval.
C7_Witness ==
    /\ call.name = "end"
    /\ call.pre = "Idle"
    /\ state = "Ended"
    /\ idle_periods # <<>>
    /\ Last(idle_periods).ended_at # None
    /\ current_idle = None

\* The effect C8 states for a resume_from_idle that directly follows a
\* mark_idle: one more interval, lasting from the one call to the other.
OneIdleIntervalOfElapsed ==
    /\ Len(idle_periods') = Len(idle_periods) + 1
    /\ SubSeq(idle_periods', 1, Len(idle_periods)) = idle_periods
    /\ Last(idle_periods').duration_ms = call'.at - call.at
    /\ active_time_ms' = active_time_ms

\* C8 as stated: from any starting state, mark_idle directly followed by
\* resume_from_idle appends exactly one idle interval whose duration is the
\* time between the two calls, and active_time_ms does not advance.
C8_IdleRoundTripAnyState ==
    [][/\ IsCall("mark_idle") => active_time_ms' = active_time_ms
       /\ (call.name = "mark_idle" /\ IsCall("resume_from_idle")) =>
             OneIdleIntervalOfElapsed]_vars

\* C8 amended: the same for a mark_idle that was called in state Active.
C8_IdleRoundTripFromActive ==
    [][/\ IsCall("mark_idle") => active_time_ms' = active_time_ms
       /\ (call.name = "mark_idle" /\ call.pre = "Active"
             /\ IsCall("resume_from_idle")) =>
             OneIdleIntervalOfElapsed]_vars

\* C8 witness: mark_idle on the new session, resume_from_idle 2000 ms later.
C8_Witness ==
    /\ call.seq = 2
    /\ call.name = "resume_from_idle"
    /\ call.pre = "Idle"
    /\ state = "Active"
    /\ Len(idle_periods) = 1
    /\ idle_periods[1].duration_ms = 2000
    /\ call.at = idle_periods[1].started_at + 2000
    /\ active_time_ms = 0

\* C9: a record call on an Active session adds the gap since the last
\* activity when it is under 5000 ms and nothing otherwise, resets the
\* activity clock to the time of the call, and so never adds 5000 ms or more.
C9_ActiveTimeAccrual ==
    [][(IsRecordCall /\ state = "Active") =>
          LET gap == call'.at - last_activity
          IN  /\ active_time_ms' =
                    active_time_ms + (IF gap < 5000 THEN gap ELSE 0)
              /\ last_activity' = call'.at
              /\ active_time_ms' - active_time_ms < 5000]_vars

\* C9 witness: two keystrokes, one after a gap of 5000 ms (nothing added) and
\* one after a gap of 2000 ms (2000 added).
C9_Witness ==
    /\ call.seq = 2
    /\ call.name = "record_keystroke"
    /\ call.pre = "Active"
    /\ keystroke_count = 2
    /\ call.at = started_at + 7000
    /\ last_activity = call.at
    /\ active_time_ms = 2000

\* C10: mark_idle called outside Active and resume_from_idle called outside
\* Idle leave every field of the session unchanged.
C10_IdleCallsNoOpElsewhere ==
    [][((IsCall("mark_idle") /\ state # "Active")
           \/ (IsCall("resume_from_idle") /\ state # "Idle"))
          => UNCHANGED sessionFields]_vars

\* C10 witness: resume_from_idle was called on a Paused session that still
\* holds an open idle interval, and the call closed nothing.
C10_Witness ==
    /\ call.name = "resume_from_idle"
    /\ call.pre = "Paused"
    /\ state = "Paused"
    /\ current_idle # None
    /\ idle_periods = <<>>

IsPrefix(a, b) == Len(a) <= Len(b) /\ SubSeq(b, 1, Len(a)) = a

NoDuplicates(seq) == \A i, j \in 1..Len(seq) : seq[i] = seq[j] => i = j

\* The sum of the values of a languages map.
RECURSIVE MapSum(_)
MapSum(map) ==
    IF DOMAIN map = {} THEN 0
    ELSE LET k == CHOOSE x \in DOMAIN map : TRUE
         IN  map[k] + MapSum([x \in DOMAIN map \ {k} |-> map[x]])

\* C11: files_edited never holds a path twice; entries already there keep
\* their position and a path already present is not appended again.
C11_FilesEditedIsSet ==
    [][/\ NoDuplicates(files_edited')
       /\ IsPrefix(files_edited, files_edited')
       /\ Len(files_edited') <= Len(files_edited) + 1]_vars

\* C11 witness: two record_file_edit calls with the same path (and different
\* languages) left one entry.
C11_Witness ==
    /\ call.name = "record_file_edit"
    /\ Len(files_edited) = 1
    /\ DOMAIN languages = Langs
    /\ MapSum(languages) = 2000

\* The result r of primary_language is a language of greatest time, or none
\* when the map is empty.
IsAMaximum(r) ==
    IF DOMAIN languages = {}
    THEN r = None
    ELSE /\ r # None
         /\ r[1] \in DOMAIN languages
         /\ \A l \in DOMAIN languages : languages[l] <= languages[r[1]]

\* C12: every record_file_edit credits exactly 1000 ms to its language, and
\* primary_language returns a language of maximal accumulated time, none when
\* no language was recorded.
C12_PrimaryLanguageIsMax ==
    [][/\ IsCall("record_file_edit") =>
             \E l \in Langs :
                /\ l \in DOMAIN languages'
                /\ languages'[l] =
                      (IF l \in DOMAIN languages THEN languages[l] ELSE 0) + 1000
                /\ \A k \in DOMAIN languages' \ {l} :
                      k \in DOMAIN languages /\ languages'[k] = languages[k]
       /\ \A o \in IterOrders(languages) :
             IsAMaximum(primary_language(languages, o))
       /\ \A o \in IterOrders(languages') :
             IsAMaximum(primary_language(languages, o))']_vars

\* C12 witness: two edits in rust and one in typescript; the primary language
\* is rust whatever the iteration order.
C12_Witness ==
    /\ call.name = "record_file_edit"
    /\ DOMAIN languages = {"rust", "typescript"}
    /\ languages["rust"] = 2000
    /\ languages["typescript"] = 1000
    /\ \A o \in IterOrders(languages) :
          primary_language(languages, o) = Some("rust")

\* C13: primary_language depends on the language-to-time pairs only: two
\* sessions with the same pairs, whatever order their maps iterate in, return
\* the same language, ties included.
C13_PrimaryLanguageDeterministic ==
    \A o1, o2 \in IterOrders(languages) :
        primary_language(languages, o1) = primary_language(languages, o2)

\* ------------------------------------------------- claims on the profile
\* Day 0 is 2024-06-05, so day 3 is 2024-06-08 and day 5 is 2024-06-10.
AfterAddSession == call.name = "add_session"

\* The day that was today when the latest call was made.
TodayAtCall == date_naive(call.at)

DatesOf(p) == {p.daily_aggregates[i].date : i \in 1..Len(p.daily_aggregates)}

SetMax(D) == CHOOSE m \in D : \A d \in D : d <= m

SetMin(D) == CHOOSE m \in D : \A d \in D : m <= d

\* The number of days of the longest run of consecutive days of D ending at m.
RunEndingAt(D, m) ==
    SetMax({m - a + 1 : a \in {a \in D : a <= m /\ \A x \in a..m : x \in D}})

\* The number of days of the longest run of consecutive days in D.
LongestRun(D) == SetMax({RunEndingAt(D, m) : m \in D})

RECURSIVE SeqSum(_)
SeqSum(seq) == IF seq = <<>> THEN 0 ELSE Head(seq) + SeqSum(Tail(seq))

LangTime(map, l) == IF l \in DOMAIN map THEN map[l] ELSE 0

\* C14: add_session adds 1 to total_sessions, the session's keystroke_count
\* to total_keystrokes, its active_time_ms to total_time_ms and its number
\* of commits to total_commits.
C14_AddSessionIncrements ==
    [][IsCall("add_session") =>
          LET s == call'.arg
              a == profile.lifetime_stats
              b == profile'.lifetime_stats
          IN  /\ b.total_sessions = a.total_sessions + 1
              /\ b.total_keystrokes = a.total_keystrokes + s.keystroke_count
              /\ b.total_time_ms = a.total_time_ms + s.active_time_ms
              /\ b.total_commits = a.total_commits + Len(s.commits)]_vars

\* C14 witness: a session with keystrokes, active time and a commit was added
\* to a profile that already held one such session.
C14_Witness ==
    /\ AfterAddSession
    /\ call.arg.keystroke_count = 3
    /\ Len(call.arg.commits) = 1
    /\ profile.lifetime_stats.total_sessions = 2
    /\ profile.lifetime_stats.total_keystrokes = 6
    /\ profile.lifetime_stats.total_time_ms = 4000
    /\ profile.lifetime_stats.total_commits = 2

\* C15: the lifetime totals equal what a scan of the session log gives:
\* total_sessions its length, and the time, keystroke, commit and
\* per-language totals the sums over the logged sessions.
C15_TotalsFromScratch ==
    LET log == profile.sessions
        ls == profile.lifetime_stats
        n == Len(log)
    IN  /\ ls.total_sessions = n
        /\ ls.total_time_ms =
              SeqSum([i \in 1..n |-> log[i].session.active_time_ms])
        /\ ls.total_keystrokes =
              SeqSum([i \in 1..n |-> log[i].session.keystroke_count])
        /\ ls.total_commits =
              SeqSum([i \in 1..n |-> Len(log[i].session.commits)])
        /\ DOMAIN ls.languages =
              UNION {DOMAIN log[i].session.languages : i \in 1..n}
        /\ \A l \in Langs :
              LangTime(ls.languages, l) =
                 SeqSum([i \in 1..n |-> LangTime(log[i].session.languages, l)])

\* C15 witness: three sessions in the log, two of them with languages.
C15_Witness ==
    /\ AfterAddSession
    /\ Len(profile.sessions) = 3
    /\ profile.lifetime_stats.total_keystrokes = 6
    /\ LangTime(profile.lifetime_stats.languages, "rust") = 4000

\* The streaks recalculate_streaks gives for the dates of D held in the
\* order o.
StreaksOf(o, today) ==
    LET st == recalculate_streaks(LifetimeStats_default,
                                  [i \in 1..Len(o) |-> DailyAggregate_new(o[i])],
                                  today)
    IN  <<st.current_streak, st.longest_streak>>

Arrangements(D) ==
    {o \in [1..Cardinality(D) -> D] :
        \A i, j \in 1..Cardinality(D) : o[i] = o[j] => i = j}

\* C16: after add_session the profile's streaks are those the streak
\* function gives from scratch for the set of aggregate dates, whatever
\* order the dates are taken in.
C16_StreaksFromScratch ==
    AfterAddSession =>
        \A o \in Arrangements(DatesOf(profile)) :
            StreaksOf(o, TodayAtCall) =
                <<profile.lifetime_stats.current_streak,
                  profile.lifetime_stats.longest_streak>>

\* C16 witness: three sessions, the later day merged first and one day
\* repeated, giving a streak of two days.
C16_Witness ==
    /\ AfterAddSession
    /\ Len(profile.sessions) = 3
    /\ Len(profile.daily_aggregates) = 2
    /\ profile.daily_aggregates[1].date = profile.daily_aggregates[2].date + 1
    /\ profile.lifetime_stats.current_streak = 2
    /\ profile.lifetime_stats.longest_streak = 2

\* C17: the dates of the DailyAggregates are pairwise distinct, and a session
\* whose start date already has an aggregate adds no aggregate.
C17_DistinctDates ==
    [][/\ \A i, j \in 1..Len(profile'.daily_aggregates) :
             profile'.daily_aggregates[i].date =
                profile'.daily_aggregates[j].date => i = j
       /\ (IsCall("add_session")
             /\ date_naive(call'.arg.started_at) \in DatesOf(profile)) =>
             Len(profile'.daily_aggregates) = Len(profile.daily_aggregates)]_vars

\* C17 witness: two sessions of one day share one aggregate.
C17_Witness ==
    /\ AfterAddSession
    /\ Len(profile.sessions) = 2
    /\ Len(profile.daily_aggregates) = 1
    /\ profile.daily_aggregates[1].sessions_count = 2

\* C18: when the dates are consecutive days and the last is today, both
\* streaks are the number of dates.
C18_ConsecutiveEndingToday ==
    (AfterAddSession
        /\ DatesOf(profile) = SetMin(DatesOf(profile))..SetMax(DatesOf(profile))
        /\ SetMax(DatesOf(profile)) = TodayAtCall) =>
        /\ profile.lifetime_stats.current_streak = Cardinality(DatesOf(profile))
        /\ profile.lifetime_stats.longest_streak = Cardinality(DatesOf(profile))

\* C18 witness: sessions on 2024-06-08, 09 and 10, today 2024-06-10, give 3.
C18_Witness ==
    /\ AfterAddSession
    /\ DatesOf(profile) = {3, 4, 5}
    /\ TodayAtCall = 5
    /\ profile.lifetime_stats.current_streak = 3
    /\ profile.lifetime_stats.longest_streak = 3

\* C19: after add_session current_streak is the length of the run of
\* consecutive days ending at the most recent date when that date is today
\* or yesterday, and 0 otherwise (older than yesterday or later than today);
\* with no dates both streaks are 0.
C19_CurrentStreakAnchored ==
    /\ AfterAddSession =>
          LET D == DatesOf(profile)
              m == SetMax(D)
          IN  profile.lifetime_stats.current_streak =
                 (IF m = TodayAtCall \/ m = TodayAtCall - 1
                  THEN RunEndingAt(D, m) ELSE 0)
    /\ profile.daily_aggregates = <<>> =>
          /\ profile.lifetime_stats.current_streak = 0
          /\ profile.lifetime_stats.longest_streak = 0

\* longest_streak is the longest run of consecutive dates, at least 1.
LongestIsLongestRun ==
    AfterAddSession =>
        /\ profile.lifetime_stats.longest_streak = LongestRun(DatesOf(profile))
        /\ profile.lifetime_stats.longest_streak >= 1

\* The dates are 2024-06-05 and 2024-06-10 and today is 2024-06-10.
ScenarioB ==
    AfterAddSession /\ DatesOf(profile) = {0, 5} /\ TodayAtCall = 5

\* C20 as stated: longest_streak is the length of the longest run of
\* consecutive dates, at least 1; dates 2024-06-05 and 2024-06-10 with today
\* 2024-06-10 give current_streak 0 and longest_streak 1.
C20_LongestRunScenarioB0 ==
    /\ LongestIsLongestRun
    /\ ScenarioB =>
          /\ profile.lifetime_stats.current_streak = 0
          /\ profile.lifetime_stats.longest_streak = 1

\* C20 amended: the same, the example giving current_streak 1 (the most
\* recent date is today) and longest_streak 1.
C20_LongestRunScenarioB1 ==
    /\ LongestIsLongestRun
    /\ ScenarioB =>
          /\ profile.lifetime_stats.current_streak = 1
          /\ profile.lifetime_stats.longest_streak = 1

\* C20 witness: Scenario B, and the dates arrived later day first.
C20_Witness ==
    /\ ScenarioB
    /\ profile.daily_aggregates[1].date = 5
    /\ profile.lifetime_stats.longest_streak = 1

\* ------------------------------------------- claims on the session, again
\* C27: active_time_ms never exceeds total_duration_ms (for an ended session
\* ended_at - started_at), so active_percentage is at most 1.
C27_ActiveShareAtMostOne == active_time_ms <= total_duration_ms

\* The entries of idle_periods are closed, each with its duration.
IdlePeriodsClosed ==
    \A i \in 1..Len(idle_periods) :
        LET p == idle_periods[i]
        IN  /\ p.ended_at # None
            /\ p.ended_at[1] >= p.started_at
            /\ p.duration_ms = p.ended_at[1] - p.started_at

\* The entries of idle_periods are in the order they were opened and none
\* starts before an earlier one has ended.
IdlePeriodsOrdered ==
    \A i, j \in 1..Len(idle_periods) :
        i < j => /\ idle_periods[i].started_at <= idle_periods[j].started_at
                 /\ idle_periods[i].ended_at[1] <= idle_periods[j].started_at

\* C28: every entry of idle_periods is a closed interval with ended_at >=
\* started_at and duration_ms = ended_at - started_at, and the entries are in
\* the order they were opened and do not overlap.
C28_IdlePeriodsClosedOrdered == IdlePeriodsClosed /\ IdlePeriodsOrdered

\* C28 witness: two idle intervals of 2000 ms each, the first closed by
\* resume_from_idle and the second by end.
C28_Witness ==
    /\ call.name = "end"
    /\ call.pre = "Idle"
    /\ Len(idle_periods) = 2
    /\ idle_periods[1].duration_ms = 2000
    /\ idle_periods[2].duration_ms = 2000
    /\ idle_periods[2].started_at = idle_periods[1].ended_at[1]

\* C29: an idle interval is open exactly when the state is Idle.
C29_OpenIdleIffIdle == (current_idle # None) <=> (state = "Idle")

\* ------------------------------------------- claims on the profile, again
\* C30: current_streak <= longest_streak, and both are at most the number of
\* DailyAggregates.
C30_StreakBounds ==
    LET ls == profile.lifetime_stats
    IN  /\ ls.current_streak <= ls.longest_streak
        /\ ls.longest_streak <= Len(profile.daily_aggregates)

\* C30 witness: three dates, the longest run two days and the current streak
\* one day.
C30_Witness ==
    /\ AfterAddSession
    /\ Len(profile.daily_aggregates) = 3
    /\ profile.lifetime_stats.longest_streak = 2
    /\ profile.lifetime_stats.current_streak = 1

\* The number of distinct files of a session.
DistinctFiles(s) == Cardinality({s.files_edited[i] : i \in 1..Len(s.files_edited)})

\* The aggregate of `date` in profile p.
DailyOf(p, date) == p.daily_aggregates[FindDaily(p.daily_aggregates, date)]

\* C22: two add_session calls with the same session value append two log
\* entries, add the session's contribution twice to the lifetime stats
\* (total_sessions + 2; keystrokes, time, commits and language times twice)
\* and twice to the one aggregate of its start date (sessions_count + 2),
\* and the second call creates no aggregate.
C22_AddSessionTwice ==
    [][(IsCall("add_session") /\ call.name = "add_session"
          /\ call'.arg = call.arg) =>
          LET s == call.arg
              date == date_naive(s.started_at)
              p0 == call.before
              p2 == profile'
              a == p0.lifetime_stats
              b == p2.lifetime_stats
              had == date \in DatesOf(p0)
              d0 == IF had THEN DailyOf(p0, date) ELSE DailyAggregate_new(date)
              d2 == DailyOf(p2, date)
          IN  /\ Len(p2.sessions) = Len(p0.sessions) + 2
              /\ p2.sessions[Len(p0.sessions) + 1].session = s
              /\ p2.sessions[Len(p0.sessions) + 2].session = s
              /\ b.total_sessions = a.total_sessions + 2
              /\ b.total_keystrokes = a.total_keystrokes + 2 * s.keystroke_count
              /\ b.total_time_ms = a.total_time_ms + 2 * s.active_time_ms
              /\ b.total_commits = a.total_commits + 2 * Len(s.commits)
              /\ \A l \in Langs :
                    LangTime(b.languages, l) =
                       LangTime(a.languages, l) + 2 * LangTime(s.languages, l)
              /\ Len(p2.daily_aggregates) = Len(profile.daily_aggregates)
              /\ Len(p2.daily_aggregates) =
                    Len(p0.daily_aggregates) + (IF had THEN 0 ELSE 1)
              /\ Cardinality({i \in 1..Len(p2.daily_aggregates) :
                                 p2.daily_aggregates[i].date = date}) = 1
              /\ d2.sessions_count = d0.sessions_count + 2
              /\ d2.total_keystrokes =
                    d0.total_keystrokes + 2 * s.keystroke_count
              /\ d2.total_time_ms = d0.total_time_ms + 2 * s.active_time_ms
              /\ d2.commits_count = d0.commits_count + 2 * Len(s.commits)]_vars

\* C22 witness: the same worked session was added twice to a profile that
\* held one session of another day.
C22_Witness ==
    /\ AfterAddSession
    /\ Len(profile.sessions) = 3
    /\ profile.sessions[2].session = call.arg
    /\ profile.sessions[3].session = call.arg
    /\ call.before.lifetime_stats.total_sessions = 2
    /\ call.arg.keystroke_count = 3
    /\ profile.lifetime_stats.total_keystrokes = 6
    /\ Len(profile.daily_aggregates) = 2
    /\ profile.daily_aggregates[2].sessions_count = 2

\* The logged sessions of p that started on `date`, in log order.
SessionsOn(p, date) ==
    SelectSeq([i \in 1..Len(p.sessions) |-> p.sessions[i].session],
              LAMBDA s : date_naive(s.started_at) = date)

\* C23: files_count of every aggregate is the sum, over the sessions merged
\* into its date, of the session's number of distinct files (a file of two
\* sessions of one day counts twice), and a merge changes no aggregate but
\* that of the session's start date.
C23_FilesCountPerSession ==
    [][IsCall("add_session") =>
          /\ \A i \in 1..Len(profile'.daily_aggregates) :
                LET d == profile'.daily_aggregates[i]
                    on == SessionsOn(profile', d.date)
                IN  d.files_count =
                       SeqSum([k \in 1..Len(on) |-> DistinctFiles(on[k])])
          /\ \A i \in 1..Len(profile.daily_aggregates) :
                profile.daily_aggregates[i].date #
                      date_naive(call'.arg.started_at) =>
                   profile'.daily_aggregates[i] = profile.daily_aggregates[i]]_vars

\* C23 witness: two sessions of one day, each with a.rs and b.ts, give that
\* day files_count 4; the aggregate of another day is as it was.
C23_Witness ==
    /\ AfterAddSession
    /\ Len(profile.daily_aggregates) = 2
    /\ Len(SessionsOn(profile, profile.daily_aggregates[2].date)) = 2
    /\ profile.daily_aggregates[2].files_count = 4
    /\ profile.daily_aggregates[1] = call.before.daily_aggregates[1]
    /\ profile.daily_aggregates[1].files_count = 2

\* What the host holds for the profile: its JSON text.
ProfileJson == GrowthProfile_to_json(profile)

\* C21: whenever the profile is queried, the current streak reported by
\* get_current_streak and get_profile_stats is what the streak function gives
\* from scratch for the aggregate dates with the day of the query as today.
C21_ReportedStreakIsCurrent ==
    \A o \in Arrangements(DatesOf(profile)) :
        /\ get_current_streak(ProfileJson) = StreaksOf(o, date_naive(now))[1]
        /\ get_profile_stats(ProfileJson).current_streak =
              StreaksOf(o, date_naive(now))[1]

\* The persisted fields of two sessions are equal.
SamePersisted(a, b) == \A f \in SessionJsonFields : a[f] = b[f]

C25_ParseFailureIsExplicit ==
    \A bad \in MalformedJson :
        /\ get_current_streak(bad) # get_current_streak(ProfileJson)
        /\ get_longest_streak(bad) # get_longest_streak(ProfileJson)
        /\ get_profile_stats(bad) # get_profile_stats(ProfileJson)
        /\ AfterAddSession =>
              \A order \in IterOrders(call.arg.languages) :
                  save_session_to_profile(ProfileJson, bad, now, <<>>) #
                     save_session_to_profile(
                         GrowthProfile_to_json(call.before),
                         Session_to_json(call.arg), call.at, order)

\* ------------------------------------------------ claims on the registry
\* The functions that take a session handle.
HandleFns ==
    {"record_keystroke", "record_file_edit", "mark_idle", "resume_from_idle",
     "end_session", "get_active_session_stats", "add_commit_to_session"}

\* Those of them that return ().
VoidFns ==
    {"record_keystroke", "record_file_edit", "mark_idle", "resume_from_idle",
     "add_commit_to_session"}

\* r is a value fn can return when its handle is known: () for the
\* functions returning (), the JSON text of a SessionStats for the others.
ReturnedOnKnownHandle(fn, r) ==
    IF fn \in VoidFns THEN r = Unit
    ELSE DOMAIN r = {"json"} /\ DOMAIN r.json =
            {"total_duration_ms", "active_percentage", "primary_language",
             "commit_count"}

\* A step that is a call of a handle function with a handle that is not in
\* the registry.
IsUnknownHandleCall ==
    /\ call'.seq = call.seq + 1
    /\ host'.fn \in HandleFns
    /\ host'.handle \notin registry

\* C24: a call of a handle function with an unknown handle changes no
\* session and no registry entry, and what it returns is nothing the same
\* function returns for a known handle.
C24_UnknownHandleReportsNotFound ==
    [][IsUnknownHandleCall =>
          /\ UNCHANGED <<sessionFields, registry>>
          /\ ~ReturnedOnKnownHandle(host'.fn, host'.ret)]_vars

\* ------------------------------------------------- claims on the rollups
\* The sum over the DailyAggregates of p of what F gives for each.
DailySum(p, F(_)) ==
    SeqSum([i \in 1..Len(p.daily_aggregates) |-> F(p.daily_aggregates[i])])

\* C31: the sums over all DailyAggregates of sessions_count, total_time_ms,
\* total_keystrokes, commits_count and each language's time equal the
\* lifetime total_sessions, total_time_ms, total_keystrokes, total_commits
\* and that language's lifetime time.
C31_RollupsAgreeWithLifetime ==
    LET ls == profile.lifetime_stats
    IN  /\ DailySum(profile, LAMBDA d : d.sessions_count) = ls.total_sessions
        /\ DailySum(profile, LAMBDA d : d.total_time_ms) = ls.total_time_ms
        /\ DailySum(profile, LAMBDA d : d.total_keystrokes) =
              ls.total_keystrokes
        /\ DailySum(profile, LAMBDA d : d.commits_count) = ls.total_commits
        /\ \A l \in Langs :
              DailySum(profile, LAMBDA d : LangTime(d.languages, l)) =
                 LangTime(ls.languages, l)
        /\ DOMAIN ls.languages =
              UNION {DOMAIN profile.daily_aggregates[i].languages :
                        i \in 1..Len(profile.daily_aggregates)}

\* C31 witness: three sessions over two days, two of them with keystrokes,
\* active time, a commit and languages, one on each day.
C31_Witness ==
    /\ AfterAddSession
    /\ Len(profile.sessions) = 3
    /\ Len(profile.daily_aggregates) = 2
    /\ profile.daily_aggregates[1].sessions_count = 2
    /\ profile.daily_aggregates[1].total_keystrokes = 3
    /\ profile.daily_aggregates[2].total_keystrokes = 3
    /\ profile.lifetime_stats.total_keystrokes = 6
    /\ profile.lifetime_stats.total_commits = 2
    /\ LangTime(profile.lifetime_stats.languages, "rust") = 4000

====
